---- MODULE Spec2Model ----
(***************************************************************************)
(* State-machine model of the graph k-colouring engine in                  *)
(* src/services/graphAlgorithms.ts: runDSATUR, runTabuCol, gpxCrossover,   *)
(* runHEAStep and initPopulation, driven from a top level that calls the   *)
(* exported entry points with inputs drawn from bounded sets.              *)
(*                                                                         *)
(* JavaScript runs every call to completion, so the model keeps one        *)
(* program position (pc) and the name of the top-level call (entry); the   *)
(* loops of the algorithms advance one round / iteration / slot per step.  *)
(* Every Math.random() draw is a nondeterministic choice.                  *)
(***************************************************************************)
EXTENDS Integers, Sequences, FiniteSets, TLC

\* ------------------------------------------------------------------ bounds
MaxN == 3          \* random graphs of 0..MaxN vertices
MaxK == 3          \* params.k ranges over 0..MaxK
MaxSearchK == 2    \* seeds and caller-built populations are drawn for k of at most MaxSearchK
PopSize == 2       \* params.popSize
MaxIter == 3       \* the budget maxIter of a runTabuCol call made from the top level
MaxIterTabu == 1   \* params.maxIterTabu
TabuTenure == 1    \* params.tabuTenure
MaxIterHEA == 2    \* params.maxIterHEA: generation steps per run
MaxSeedN == 2      \* seeds are drawn for random graphs of at most MaxSeedN vertices and the scenario graphs
MaxPopN == 1       \* populations are drawn for random graphs of at most MaxPopN vertices and the scenario graphs
MaxParseN == 2     \* parseEdgesInput is given n in 0..MaxParseN and texts with ids in 0..MaxParseN + 1
MaxChunks == 2     \* the texts are made of at most MaxChunks pieces

\* --------------------------------------------------------------- sentinels
NoNode == -1       \* bestMove.node / bestIdx before any candidate was kept
Infinity == 1000   \* larger than every degree, delta and conflict count of the bounded graphs
NoReport == -1     \* no best conflict count reported yet

\* ----------------------------------------------------------------- helpers
Min(a, b) == IF a < b THEN a ELSE b

Range(s) == {s[i] : i \in 1..Len(s)}

\* number of positions of sequence s whose element satisfies P
Count(s, P(_)) == Cardinality({i \in 1..Len(s) : P(s[i])})

RECURSIVE SumSeq(_)
SumSeq(s) == IF s = <<>> THEN 0 ELSE Head(s) + SumSeq(Tail(s))

\* --------------------------------------------------------------- the graph
\* GraphData: nodes (ids 1..n in order), links, adjacency (id -> neighbour list)
EmptyGraphOn(n) ==
  [nodes |-> [i \in 1..n |-> i],
   links |-> <<>>,
   adjacency |-> [i \in 1..n |-> <<>>]]

\* links.push / adjacency.get(u).push(v) / adjacency.get(v).push(u)
AddLink(g, u, v) ==
  [g EXCEPT !.links = Append(@, <<u, v>>),
            !.adjacency[u] = Append(@, v),
            !.adjacency[v] = Append(@, u)]

\* the pairs (i, j), i < j, in the order of the two nested loops
RECURSIVE PairsFrom(_, _, _)
PairsFrom(i, j, n) ==
  IF i >= n THEN <<>>
  ELSE IF j > n THEN PairsFrom(i + 1, i + 2, n)
  ELSE <<<<i, j>>>> \o PairsFrom(i, j + 1, n)

RECURSIVE ERFold(_, _, _)
ERFold(g, prs, hits) ==
  IF prs = <<>> THEN g
  ELSE LET pr == Head(prs) IN
       ERFold(IF pr \in hits THEN AddLink(g, pr[1], pr[2]) ELSE g, Tail(prs), hits)

\* generateErdosRenyi(n, p); hits = the pairs for which Math.random() < p
generateErdosRenyi(n, hits) == ERFold(EmptyGraphOn(n), PairsFrom(1, 2, n), hits)

\* the test of lines 42-47 that only looks for the pair in the orientation it is written in
acceptPairOneWay(g, u, v, n) ==
  LET existing == \E j \in 1..Len(g.links) : g.links[j] = <<u, v>>
  IN u >= 1 /\ u <= n /\ v >= 1 /\ v <= n /\ ~existing /\ u # v

\* lines 42-47: the pair (u, v) is added
acceptPair(g, u, v, n) ==
  LET existing == \E j \in 1..Len(g.links) :
                     \/ g.links[j] = <<u, v>>
                     \/ g.links[j] = <<v, u>>
  IN u >= 1 /\ u <= n /\ v >= 1 /\ v <= n /\ ~existing /\ u # v

RECURSIVE ParseFold(_, _, _)
ParseFold(g, prs, n) ==
  IF prs = <<>> THEN g
  ELSE LET u == Head(prs)[1]
           v == Head(prs)[2]
       IN ParseFold(IF acceptPair(g, u, v, n) THEN AddLink(g, u, v) ELSE g, Tail(prs), n)

\* parseEdgesInput(input, n); pairs = the "(u,v)" tokens the regular expression matches, in order
parseEdgesInput(prs, n) == ParseFold(EmptyGraphOn(n), prs, n)

\* ------------------------------------------------------- the edge-list text
\* a text is a sequence of one-character strings
Digits == <<"0", "1", "2", "3", "4", "5", "6", "7", "8", "9">>
IsDigit(ch) == \E d \in 1..Len(Digits) : Digits[d] = ch
DigitValue(ch) == (CHOOSE d \in 1..Len(Digits) : Digits[d] = ch) - 1

\* input.replace(/\s/g, ''), line 34
cleanInput(text) == SelectSeq(text, LAMBDA ch : ch # " ")

\* the end of the run of digits that starts at position p (p - 1 when there is none)
RECURSIVE DigitsEnd(_, _)
DigitsEnd(text, p) ==
  IF p <= Len(text) /\ IsDigit(text[p]) THEN DigitsEnd(text, p + 1) ELSE p - 1

\* the last position of a match of \(\d+,\d+\) that starts at position p, 0 when none does
MatchEnd(text, p) ==
  IF p > Len(text) \/ text[p] # "(" THEN 0
  ELSE LET e1 == DigitsEnd(text, p + 1) IN
       IF e1 < p + 1 \/ e1 + 1 > Len(text) \/ text[e1 + 1] # "," THEN 0
       ELSE LET e2 == DigitsEnd(text, e1 + 2) IN
            IF e2 < e1 + 2 \/ e2 + 1 > Len(text) \/ text[e2 + 1] # ")" THEN 0
            ELSE e2 + 1

\* cleanInput.match(/\(\d+,\d+\)/g), line 35: the matches from left to right, without overlap
RECURSIVE MatchFrom(_, _)
MatchFrom(text, p) ==
  IF p > Len(text) THEN <<>>
  ELSE LET e == MatchEnd(text, p) IN
       IF e = 0 THEN MatchFrom(text, p + 1)
       ELSE <<SubSeq(text, p, e)>> \o MatchFrom(text, e + 1)

matchPairs(text) == MatchFrom(text, 1)

\* parseInt of a run of digits, lines 40-41
RECURSIVE parseInt(_)
parseInt(ds) ==
  IF ds = <<>> THEN 0 ELSE 10 * parseInt(SubSeq(ds, 1, Len(ds) - 1)) + DigitValue(ds[Len(ds)])

\* lines 39-41: pair.replace(/[()]/g, '').split(','), then parseInt of both parts
pairOf(token) ==
  LET inner == SelectSeq(token, LAMBDA ch : ch # "(" /\ ch # ")")
      comma == CHOOSE q \in 1..Len(inner) : inner[q] = ","
  IN <<parseInt(SubSeq(inner, 1, comma - 1)), parseInt(SubSeq(inner, comma + 1, Len(inner)))>>

\* the default manual edge list of the application: the 4-cycle
manualEdges == <<<<1, 2>>, <<2, 3>>, <<3, 4>>, <<4, 1>>>>
Cycle4 == parseEdgesInput(manualEdges, 4)

AllPairs(n) == {<<i, j>> : i \in 1..n, j \in 1..n} \cap {pr \in (1..n) \X (1..n) : pr[1] < pr[2]}

RandomGraphs == UNION {{generateErdosRenyi(n, hits) : hits \in SUBSET AllPairs(n)} : n \in 0..MaxN}

\* the complete graph on 3 vertices
Triangle == generateErdosRenyi(3, AllPairs(3))

\* the graphs of the test scenarios: the 4-cycle and the complete graph on 3 vertices
ScenarioGraphs == {Cycle4, Triangle}

\* the triangle 2-3-4 with the pendant vertex 1 on 4: after the seed (vertex 4) the three
\* other vertices have the same saturation and vertex 1, the first in node order, has the
\* smallest degree
Paw == generateErdosRenyi(4, {<<1, 4>>, <<2, 3>>, <<2, 4>>, <<3, 4>>})

Graphs == RandomGraphs \cup ScenarioGraphs \cup {Paw}

NodeIds(g) == Range(g.nodes)
N(g) == Len(g.nodes)

\* ------------------------------------------------------- conflict evaluator
\* the directed count without the test coloring[node] !== 0
DirectedConflictsZeroToo(coloring, adjacency) ==
  LET perNode(node) ==
        Count(adjacency[node], LAMBDA neighbor : coloring[node] = coloring[neighbor])
  IN SumSeq([node \in 1..Len(adjacency) |-> perNode(node)])

\* the directed count of lines 60-67 (every edge is seen from both ends)
DirectedConflicts(coloring, adjacency) ==
  LET perNode(node) ==
        Count(adjacency[node],
              LAMBDA neighbor : coloring[node] = coloring[neighbor] /\ coloring[node] # 0)
  IN SumSeq([node \in 1..Len(adjacency) |-> perNode(node)])

\* countConflicts: conflicts / 2 (exact on a symmetric adjacency, where the
\* directed count is even)
\* the directed count returned without the halving of line 68
countConflictsUnhalved(coloring, adjacency) == DirectedConflicts(coloring, adjacency)

countConflicts(coloring, adjacency) == DirectedConflicts(coloring, adjacency) \div 2

\* ------------------------------------------------------------------- state
VARIABLES
  graph,            \* the GraphData every call works on
  params,           \* AlgorithmParams as the running call sees them (the params of its closure)
  formParams,       \* App: the params state behind the parameter inputs
  numNodes,         \* App: the Nodes input (numNodes)
  input,            \* App: the text of the manual edge list (manualEdges)
  pairs,            \* parseEdgesInput: the matches not yet handled by the forEach of line 38
  pc,               \* position of the running call
  entry,            \* the entry point called from the top level
  err,              \* the error thrown by the running call, "none" if none
  coloring,         \* runDSATUR: coloring
  initialColoring,  \* runTabuCol: the seed argument
  maxIter,          \* runTabuCol: the iteration budget argument
  currentS,         \* runTabuCol: current coloring
  bestS,            \* runTabuCol: best-seen coloring
  currentConflicts, \* runTabuCol: running conflict total
  bestConflicts,    \* runTabuCol: best conflict total
  tabuMatrix,       \* runTabuCol: node -> color -> iteration index
  iter,             \* runTabuCol: loop counter
  lastMove,         \* runTabuCol: what the last completed iteration did (record)
  leftAt,           \* runTabuCol: node -> color -> the last iteration whose delta-tracked move took the node off the color
  minSeen,          \* runTabuCol: least countConflicts over the colorings that were current
  p1, p2,           \* runHEAStep: the two tournament winners
  child,            \* gpxCrossover: child
  unassigned,       \* gpxCrossover: unassigned
  c,                \* gpxCrossover: target slot
  currentParent,    \* gpxCrossover: 1 or 2
  population,       \* the population held between calls
  newPopulation,    \* runHEAStep: newPopulation
  individuals,      \* initPopulation: the population array being built
  i,                \* initPopulation: loop counter
  heaOut,           \* runHEAStep: what the call returns and decided (record)
  heaIter,          \* number of generation steps made on the population
  reported,         \* best conflict count last reported for the population
  holder,           \* who holds the population: "none", "caller" (a direct caller) or "app" (startHEA)
  isRunning,        \* App: the isRunning flag
  timer,            \* App: simulationInterval.current holds an installed interval timer
  timers,           \* the interval timers installed by setInterval and not cleared
  invoked,          \* runHEAStep calls made by the timer since startHEA
  alias             \* the groups of names that refer to one and the same object

inputVars == <<graph, params, numNodes, input, pairs>>
formVars == <<formParams>>
heapVars == <<alias>>
dsaturVars == <<coloring>>
tabuVars == <<initialColoring, maxIter, currentS, bestS, currentConflicts, bestConflicts,
              tabuMatrix, iter, lastMove, leftAt, minSeen>>
gpxVars == <<child, unassigned, c, currentParent>>
heaVars == <<p1, p2, newPopulation, heaOut>>
topVars == <<population, heaIter, reported, holder, isRunning, timer, timers, invoked>>
appVars == <<holder, isRunning, timer, timers, invoked>>
ipVars == <<individuals, i>>
vars == <<inputVars, formVars, heapVars, pc, entry, err, dsaturVars, tabuVars, gpxVars, heaVars, ipVars, topVars>>

\* -------------------------------------------------------------- references
\* Colorings, individuals and arrays are JavaScript objects, and a variable holds a
\* reference to one. A name is a pair: <<v, 0>> is the variable v, <<v, j>> the coloring
\* held by the j-th individual of the array v. alias is the set of the groups of two or
\* more names that refer to one object; a name in no group is the only reference to its
\* object. A write through a name is seen through every name of its group.
Ref(v) == <<v, 0>>
Member(v, j) == <<v, j>>

Groups(B) == {cls \in B : Cardinality(cls) >= 2}
GroupOf(A, x) == IF \E cls \in A : x \in cls THEN CHOOSE cls \in A : x \in cls ELSE {x}

\* the name x goes out of scope
outOfScope(A, x) == Groups({cls \ {x} : cls \in A})

\* x = {} or x = an object of the caller: x is the only reference to its object
newObject(A, x) == outOfScope(A, x)

\* x = y, and an argument y bound to the parameter x: both refer to the object of y
sameObject(A, x, y) ==
  LET B == outOfScope(A, x)
      cy == GroupOf(B, y)
  IN (B \ {cy}) \cup {cy \cup {x}}

\* a spread that hands back the object it was given
spreadShared(A, x, y) == sameObject(A, x, y)

\* x = { ...y } (lines 173, 179, 244) and x = [...y] (line 359): a new object
spread(A, x, y) == newObject(A, x)

\* line 359, newPopulation = [...population]: a new array whose entries are the
\* individuals of the old one
spreadArray(A, v, w) ==
  LET B == spread(Groups({{n \in cls : n[1] # v \/ n[2] = 0} : cls \in A}), Ref(v), Ref(w))
      old == {n \in UNION B : n[1] = w /\ n[2] >= 1}
  IN {cls \cup {Member(v, n[2]) : n \in {m \in cls : m[1] = w /\ m[2] >= 1}} : cls \in B}
       \cup {{Member(w, j), Member(v, j)} : j \in {j \in 1..Len(population) : Member(w, j) \notin old}}

\* the call returns and its caller stores the array v as the population: the names of
\* the locals go out of scope, the entries of v are now the entries of population
handOver(A, v) ==
  Groups({{Member("population", n[2]) : n \in {m \in cls : m[1] = v}} : cls \in A})

\* values of the locals of a call that is not running
NoColoring == <<>>
NoMove == [kind |-> "none", node |-> NoNode, oldColor |-> -1, newColor |-> -1, delta |-> 0]
NoHeaOut == [best |-> NoColoring, bestConflicts |-> NoReport, childConflicts |-> NoReport,
             worstIdx |-> -1, worstConf |-> -1, isDuplicate |-> FALSE, replaced |-> FALSE]

\* no call is running: every local holds its idle value
LocalsIdle ==
  /\ coloring = NoColoring
  /\ initialColoring = NoColoring /\ maxIter = 0
  /\ currentS = NoColoring /\ bestS = NoColoring
  /\ currentConflicts = 0 /\ bestConflicts = 0 /\ tabuMatrix = <<>> /\ iter = 0
  /\ lastMove = NoMove /\ leftAt = <<>> /\ minSeen = 0
  /\ child = NoColoring /\ unassigned = {} /\ c = 0 /\ currentParent = 0
  /\ p1 = <<>> /\ p2 = <<>> /\ newPopulation = <<>> /\ heaOut = NoHeaOut
  /\ individuals = <<>> /\ i = 0

\* the locals of the finished call are dropped
DropLocals ==
  /\ coloring' = NoColoring
  /\ initialColoring' = NoColoring /\ maxIter' = 0
  /\ currentS' = NoColoring /\ bestS' = NoColoring
  /\ currentConflicts' = 0 /\ bestConflicts' = 0 /\ tabuMatrix' = <<>> /\ iter' = 0
  /\ lastMove' = NoMove /\ leftAt' = <<>> /\ minSeen' = 0
  /\ child' = NoColoring /\ unassigned' = {} /\ c' = 0 /\ currentParent' = 0
  /\ p1' = <<>> /\ p2' = <<>> /\ newPopulation' = <<>> /\ heaOut' = NoHeaOut
  /\ individuals' = <<>> /\ i' = 0

Init ==
  /\ graph \in Graphs
  /\ numNodes = N(graph) /\ input = <<>> /\ pairs = <<>>
  /\ \E k \in 0..MaxK :
        params = [k |-> k, popSize |-> PopSize, maxIterTabu |-> MaxIterTabu,
                  tabuTenure |-> TabuTenure, maxIterHEA |-> MaxIterHEA]
  /\ formParams = params
  /\ alias = {}
  /\ pc = "idle" /\ entry = "none" /\ err = "none"
  /\ LocalsIdle
  /\ population = <<>> /\ heaIter = 0 /\ reported = NoReport
  /\ holder = "none" /\ isRunning = FALSE /\ timer = FALSE /\ timers = 0 /\ invoked = 0

\* ------------------------------------------------------------------ DSATUR
degrees(g) == [id \in NodeIds(g) |-> Len(g.adjacency[id])]

\* getSaturation: number of distinct non-zero colors among the neighbours
getSaturation(col, adjacency, nodeId) ==
  Cardinality({col[adjacency[nodeId][j]] : j \in 1..Len(adjacency[nodeId])} \ {0})

uncoloredCount(g, col) == Count(g.nodes, LAMBDA id : col[id] = 0)

\* nodes.reduce((a, b) => degrees[a.id] > degrees[b.id] ? a : b), no initial value
RECURSIVE ReduceMaxDegree(_, _, _)
ReduceMaxDegree(a, rest, deg) ==
  IF rest = <<>> THEN a
  ELSE ReduceMaxDegree(IF deg[a] > deg[Head(rest)] THEN a ELSE Head(rest), Tail(rest), deg)

maxDegreeNode(g) == ReduceMaxDegree(Head(g.nodes), Tail(g.nodes), degrees(g))

\* nodes.filter(n => coloring[n.id] === 0), in node order
RECURSIVE FilterUncolored(_, _)
FilterUncolored(nodes, col) ==
  IF nodes = <<>> THEN <<>>
  ELSE IF col[Head(nodes)] = 0 THEN <<Head(nodes)>> \o FilterUncolored(Tail(nodes), col)
  ELSE FilterUncolored(Tail(nodes), col)

\* the comparator of uncolored.sort: saturation desc, then degree desc
SortCompare(a, b, sat, deg) ==
  IF sat[a] # sat[b] THEN sat[b] - sat[a] ELSE deg[b] - deg[a]

\* Array.prototype.sort is stable: x goes behind every element that does not
\* compare greater than it
RECURSIVE InsertStable(_, _, _, _)
InsertStable(sorted, x, sat, deg) ==
  IF sorted = <<>> THEN <<x>>
  ELSE IF SortCompare(Head(sorted), x, sat, deg) > 0 THEN <<x>> \o sorted
  ELSE <<Head(sorted)>> \o InsertStable(Tail(sorted), x, sat, deg)

RECURSIVE StableSort(_, _, _, _)
StableSort(sorted, rest, sat, deg) ==
  IF rest = <<>> THEN sorted
  ELSE StableSort(InsertStable(sorted, Head(rest), sat, deg), Tail(rest), sat, deg)

\* the first uncolored node in node order, without the sort
chosenNodeUnsorted(g, col) == Head(FilterUncolored(g.nodes, col))

\* the first node of the graph, without the filter of line 110
chosenNodeUnfiltered(g, col) == Head(g.nodes)

\* lines 103-120: uncolored[0] after the sort
chosenNode(g, col) ==
  LET saturation == [id \in NodeIds(g) |-> getSaturation(col, g.adjacency, id)]
      uncolored == StableSort(<<>>, FilterUncolored(g.nodes, col), saturation, degrees(g))
  IN Head(uncolored)

\* the used colors when the neighbours are not looked at
usedColorsNone(g, col, id) == {}

\* lines 123-126
usedColors(g, col, id) == {col[g.adjacency[id][j]] : j \in 1..Len(g.adjacency[id])} \ {0}

\* the loop of line 129 that never runs: chosenColor stays what it was
LowestFreeNone(chosenColor, used) == chosenColor

\* let chosenColor = 1; while (usedColors.has(chosenColor)) chosenColor++
RECURSIVE LowestFree(_, _)
LowestFree(chosenColor, used) ==
  IF chosenColor \in used THEN LowestFree(chosenColor + 1, used) ELSE chosenColor

\* the scan of lines 146-153 with <= in place of <: the last color with the least count
RECURSIVE PickMinCountLast(_, _, _, _, _)
PickMinCountLast(col, k, counts, minConf, bestC) ==
  IF col > k THEN bestC
  ELSE IF counts[col] <= minConf THEN PickMinCountLast(col + 1, k, counts, counts[col], col)
  ELSE PickMinCountLast(col + 1, k, counts, minConf, bestC)

\* lines 146-153: first color of 1..k with the least count
RECURSIVE PickMinCount(_, _, _, _, _)
PickMinCount(col, k, counts, minConf, bestC) ==
  IF col > k THEN bestC
  ELSE IF counts[col] < minConf THEN PickMinCount(col + 1, k, counts, counts[col], col)
  ELSE PickMinCount(col + 1, k, counts, minConf, bestC)

\* the color choice without the cap at k of lines 138-155
chosenColorUncapped(g, col, k, id) == LowestFree(1, usedColors(g, col, id))

\* lines 122-155: the color given to the chosen node
chosenColorFor(g, col, k, id) ==
  LET lowest == LowestFree(1, usedColors(g, col, id))
      counts == [cc \in 1..k |->
                   Count(g.adjacency[id], LAMBDA neighbor : col[neighbor] = cc)]
  IN IF lowest > k THEN PickMinCount(1, k, counts, Infinity, 1) ELSE lowest

\* lines 74-99: setup and the seed vertex; reduce throws on an empty array
DSATURBegin ==
  /\ pc = "DSATUR_begin"
  /\ IF N(graph) = 0
       THEN /\ err' = "TypeError"
            /\ pc' = "thrown"
            /\ UNCHANGED <<coloring, alias>>
       ELSE /\ coloring' = [id \in NodeIds(graph) |->
                               IF id = maxDegreeNode(graph) THEN 1 ELSE 0]
            /\ alias' = newObject(alias, Ref("coloring"))
            /\ pc' = "DSATUR_loop"
            /\ UNCHANGED err
  /\ UNCHANGED <<inputVars, formVars, entry, tabuVars, gpxVars, heaVars, ipVars, topVars>>

\* lines 101-158: one round of the main loop
DSATURRound ==
  /\ pc = "DSATUR_loop"
  /\ uncoloredCount(graph, coloring) > 0
  /\ LET chosen == chosenNode(graph, coloring)
     IN coloring' = [coloring EXCEPT ![chosen] = chosenColorFor(graph, coloring, params.k, chosen)]
  /\ UNCHANGED <<inputVars, formVars, heapVars, pc, entry, err, tabuVars, gpxVars, heaVars, ipVars, topVars>>

\* line 101 false, line 160: return coloring
DSATURExit ==
  /\ pc = "DSATUR_loop"
  /\ uncoloredCount(graph, coloring) = 0
  /\ pc' = "DSATUR_done"
  /\ UNCHANGED <<inputVars, formVars, heapVars, entry, err, dsaturVars, tabuVars, gpxVars, heaVars, ipVars, topVars>>

\* ----------------------------------------------------------------- TabuCol
\* a draw that can also give k + 1
randomColorOffByOne(k) == 1..(k + 1)

\* the colors Math.floor(Math.random() * k) + 1 can give (lines 176, 249, 316): 1..k, and 1 when k = 0
randomColor(k) == IF k >= 1 THEN 1..k ELSE {1}

\* lines 193-196: the nodes with a neighbour of their own color
conflictedNodes(g, S) ==
  {id \in NodeIds(g) : \E j \in 1..Len(g.adjacency[id]) : S[g.adjacency[id][j]] = S[id]}

\* the count of lines 211 and 218 with the test inverted: the neighbours not holding col
nodeConflictsInverted(g, S, u, col) == Count(g.adjacency[u], LAMBDA v : S[v] # col)

\* number of neighbours of u holding color col (lines 211 and 218)
nodeConflicts(g, S, u, col) == Count(g.adjacency[u], LAMBDA v : S[v] = col)

\* bestMove before the scan (line 200)
InitialBestMove == [node |-> NoNode, oldColor |-> -1, newColor |-> -1, delta |-> Infinity]

\* a candidate whose delta forgets the conflicts the node leaves behind
CandidateNewOnly(g, S, u, color) ==
  [node |-> u, oldColor |-> S[u], newColor |-> color,
   delta |-> nodeConflicts(g, S, u, color)]

\* the candidate (u, color) of lines 213-220
Candidate(g, S, u, color) ==
  [node |-> u, oldColor |-> S[u], newColor |-> color,
   delta |-> nodeConflicts(g, S, u, color) - nodeConflicts(g, S, u, S[u])]

\* the test of line 223 with > in place of >=
isTabuStrict(tm, m, it) == tm[m.node][m.newColor] > it

\* lines 223-226
isTabu(tm, m, it) == tm[m.node][m.newColor] >= it
isAspiration(m, cc, bc) == cc + m.delta < bc
isEligible(tm, m, it, cc, bc) == ~isTabu(tm, m, it) \/ isAspiration(m, cc, bc)

\* the candidates in the order the two loops of lines 204-213 meet them
RECURSIVE CandidateSeq(_, _, _, _, _)
CandidateSeq(g, S, k, u, color) ==
  IF u > N(g) THEN <<>>
  ELSE IF u \notin conflictedNodes(g, S) \/ color > k THEN CandidateSeq(g, S, k, u + 1, 1)
  ELSE IF color = S[u] THEN CandidateSeq(g, S, k, u, color + 1)
  ELSE <<Candidate(g, S, u, color)>> \o CandidateSeq(g, S, k, u, color + 1)

\* lines 226-233 for one candidate: the values bestMove can hold afterwards
\* (an equal delta replaces bestMove when Math.random() < 0.5)
ScanStep(possible, m, eligible) ==
  IF ~eligible THEN possible
  ELSE UNION {IF m.delta < b.delta THEN {m}
              ELSE IF m.delta = b.delta THEN {m, b}
              ELSE {b} : b \in possible}

RECURSIVE ScanMoves(_, _, _, _, _, _)
ScanMoves(possible, cands, tm, it, cc, bc) ==
  IF cands = <<>> THEN possible
  ELSE ScanMoves(ScanStep(possible, Head(cands), isEligible(tm, Head(cands), it, cc, bc)),
                 Tail(cands), tm, it, cc, bc)

\* the values of bestMove the scan of lines 200-235 can end with
bestMoves ==
  ScanMoves({InitialBestMove}, CandidateSeq(graph, currentS, params.k, 1, 1),
            tabuMatrix, iter, currentConflicts, bestConflicts)

\* tabuMatrix[node][oldColor] = until (a slot outside 1..k is written but never read)
SetTabu(tm, k, node, oldColor, until) ==
  IF oldColor \in 1..k THEN [tm EXCEPT ![node][oldColor] = until] ELSE tm

\* lines 173-187: copy and normalise the seed, count, reset the tabu memory
TabuBegin ==
  /\ pc = "Tabu_begin"
  /\ LET over == {key \in DOMAIN initialColoring : initialColoring[key] > params.k}
     IN \E draw \in [over -> randomColor(params.k)] :
          currentS' = [key \in DOMAIN initialColoring |->
                         IF key \in over THEN draw[key] ELSE initialColoring[key]]
  /\ bestS' = currentS'
  /\ alias' = spread(spread(alias, Ref("currentS"), Ref("initialColoring")),
                      Ref("bestS"), Ref("currentS"))
  /\ currentConflicts' = countConflicts(currentS', graph.adjacency)
  /\ bestConflicts' = currentConflicts'
  /\ minSeen' = currentConflicts'
  /\ tabuMatrix' = [id \in NodeIds(graph) |-> [col \in 1..params.k |-> 0]]
  /\ iter' = 1
  /\ lastMove' = NoMove
  /\ leftAt' = [id \in NodeIds(graph) |-> [col \in 1..params.k |-> 0]]
  /\ pc' = "Tabu_loop"
  /\ UNCHANGED <<inputVars, formVars, entry, err, dsaturVars, initialColoring, maxIter, gpxVars, heaVars, ipVars, topVars>>

TabuRunning ==
  /\ pc = "Tabu_loop"
  /\ iter <= maxIter
  /\ bestConflicts # 0
  /\ conflictedNodes(graph, currentS) # {}

\* lines 237-245: an eligible candidate was kept; apply it
TabuMove ==
  /\ TabuRunning
  /\ \E bestMove \in bestMoves :
       /\ bestMove.node # NoNode
       /\ currentS' = [currentS EXCEPT ![bestMove.node] = bestMove.newColor]
       /\ currentConflicts' = currentConflicts + bestMove.delta
       /\ \E jitter \in 0..1 :
            tabuMatrix' = SetTabu(tabuMatrix, params.k, bestMove.node, bestMove.oldColor,
                                  iter + params.tabuTenure + jitter)
       /\ IF currentConflicts' < bestConflicts
            THEN /\ bestConflicts' = currentConflicts' /\ bestS' = currentS'
                 /\ alias' = spread(alias, Ref("bestS"), Ref("currentS"))
            ELSE UNCHANGED <<bestConflicts, bestS, alias>>
       /\ lastMove' = [kind |-> "delta", node |-> bestMove.node, oldColor |-> bestMove.oldColor,
                       newColor |-> bestMove.newColor, delta |-> bestMove.delta]
       /\ leftAt' = SetTabu(leftAt, params.k, bestMove.node, bestMove.oldColor, iter)
  /\ minSeen' = Min(minSeen, countConflicts(currentS', graph.adjacency))
  /\ iter' = iter + 1
  /\ UNCHANGED <<inputVars, formVars, pc, entry, err, dsaturVars, initialColoring, maxIter, gpxVars, heaVars, ipVars, topVars>>

\* lines 246-255: no candidate was kept; recolor a random conflicted node
TabuForcedMove ==
  /\ TabuRunning
  /\ \A bestMove \in bestMoves : bestMove.node = NoNode
  /\ \E u \in conflictedNodes(graph, currentS), randColor \in randomColor(params.k) :
       /\ IF randColor # currentS[u]
            THEN /\ currentS' = [currentS EXCEPT ![u] = randColor]
                 /\ currentConflicts' = countConflicts(currentS', graph.adjacency)
            ELSE UNCHANGED <<currentS, currentConflicts>>
       /\ lastMove' = [kind |-> "forced", node |-> u, oldColor |-> currentS[u],
                       newColor |-> randColor, delta |-> 0]
  /\ minSeen' = Min(minSeen, countConflicts(currentS', graph.adjacency))
  /\ iter' = iter + 1
  /\ UNCHANGED <<inputVars, formVars, heapVars, pc, entry, err, dsaturVars, initialColoring, maxIter, bestS, bestConflicts,
                 tabuMatrix, leftAt, gpxVars, heaVars, ipVars, topVars>>

\* the loop ends (budget spent, line 190 or line 198); line 258 returns bestS, bestConflicts
\* and the loop's own locals go out of scope
TabuExit ==
  /\ pc = "Tabu_loop"
  /\ ~TabuRunning
  /\ pc' = "Tabu_done"
  /\ currentS' = NoColoring /\ currentConflicts' = 0
  /\ alias' = outOfScope(alias, Ref("currentS"))
  /\ tabuMatrix' = <<>> /\ iter' = 0 /\ lastMove' = NoMove /\ leftAt' = <<>>
  /\ UNCHANGED <<inputVars, formVars, entry, err, dsaturVars, initialColoring, maxIter, bestS, bestConflicts,
                 minSeen, gpxVars, heaVars, ipVars, topVars>>

\* --------------------------------------------------------------------- GPX
\* classes that each hold every node, whatever its color
getClassesMerged(col, k) == [color \in 1..k |-> DOMAIN col]

\* getClasses: color -> the nodes holding it; a color outside 1..k has no class
getClasses(col, k) == [color \in 1..k |-> {nodeId \in DOMAIN col : col[nodeId] = color}]

\* a scan that keeps no class: bestColor stays -1
ScanClassesNone(color, k, parentClasses, un, bestColor, bestCount) == -1

\* the scan of lines 291-300 with >= in place of >: the last class with the most unassigned nodes
RECURSIVE ScanClassesLast(_, _, _, _, _, _)
ScanClassesLast(color, k, parentClasses, un, bestColor, bestCount) ==
  IF color > k THEN bestColor
  ELSE LET count == Cardinality(parentClasses[color] \cap un)
       IN IF count >= bestCount
            THEN ScanClassesLast(color + 1, k, parentClasses, un, color, count)
            ELSE ScanClassesLast(color + 1, k, parentClasses, un, bestColor, bestCount)

\* lines 291-300: the first class, in color order, with the most unassigned nodes
RECURSIVE ScanClasses(_, _, _, _, _, _)
ScanClasses(color, k, parentClasses, un, bestColor, bestCount) ==
  IF color > k THEN bestColor
  ELSE LET count == Cardinality(parentClasses[color] \cap un)
       IN IF count > bestCount
            THEN ScanClasses(color + 1, k, parentClasses, un, color, count)
            ELSE ScanClasses(color + 1, k, parentClasses, un, bestColor, bestCount)

\* a fill that leaves the unassigned nodes as they are
randomFillNone(ch, un, draw) == ch

\* lines 315-317: child[nid] = random color, for every nid still unassigned
randomFill(ch, un, draw) == [id \in DOMAIN ch |-> IF id \in un THEN draw[id] ELSE ch[id]]

\* lines 273-281
GPXBegin ==
  /\ pc = "GPX_begin"
  /\ child' = [id \in NodeIds(graph) |-> 0]
  /\ alias' = newObject(alias, Ref("child"))
  /\ unassigned' = NodeIds(graph)
  /\ c' = 1
  /\ currentParent' = 1
  /\ pc' = "GPX_slot"
  /\ UNCHANGED <<inputVars, formVars, entry, err, dsaturVars, tabuVars, heaVars, ipVars, topVars>>

\* lines 283-312: one target slot c
GPXSlot ==
  /\ pc = "GPX_slot"
  /\ c <= params.k
  /\ LET parentClasses == IF currentParent = 1 THEN getClasses(p1.coloring, params.k)
                                                ELSE getClasses(p2.coloring, params.k)
         bestColor == ScanClasses(1, params.k, parentClasses, unassigned, -1, -1)
         moved == IF bestColor # -1 THEN parentClasses[bestColor] \cap unassigned ELSE {}
     IN /\ child' = [id \in DOMAIN child |-> IF id \in moved THEN c ELSE child[id]]
        /\ unassigned' = unassigned \ moved
  /\ currentParent' = IF currentParent = 1 THEN 2 ELSE 1
  /\ c' = c + 1
  /\ UNCHANGED <<inputVars, formVars, heapVars, pc, entry, err, dsaturVars, tabuVars, heaVars, ipVars, topVars>>

\* lines 314-319: the remaining nodes get random colors; return child
GPXFill ==
  /\ pc = "GPX_slot"
  /\ c > params.k
  /\ \E draw \in [unassigned -> randomColor(params.k)] :
       child' = randomFill(child, unassigned, draw)
  /\ pc' = "GPX_done"
  /\ UNCHANGED <<inputVars, formVars, heapVars, entry, err, dsaturVars, tabuVars, unassigned, c, currentParent,
                 heaVars, ipVars, topVars>>

\* --------------------------------------------------------------------- HEA
\* lines 331-342: the index kept by tournament(size) for the drawn indices
RECURSIVE TournamentFold(_, _, _, _)
TournamentFold(draws, pop, bestIdx, bestFit) ==
  IF draws = <<>> THEN bestIdx
  ELSE IF pop[Head(draws)].conflicts < bestFit
         THEN TournamentFold(Tail(draws), pop, Head(draws), pop[Head(draws)].conflicts)
         ELSE TournamentFold(Tail(draws), pop, bestIdx, bestFit)

tournament(draws, pop) == pop[TournamentFold(draws, pop, NoNode, Infinity)]

TournamentSize == 3

\* the scan of lines 362-369 with >= in place of >: the last individual with the most conflicts
RECURSIVE WorstFoldLast(_, _, _, _)
WorstFoldLast(idx, pop, worstIdx, worstConf) ==
  IF idx > Len(pop) THEN [worstIdx |-> worstIdx, worstConf |-> worstConf]
  ELSE IF pop[idx].conflicts >= worstConf
         THEN WorstFoldLast(idx + 1, pop, idx, pop[idx].conflicts)
         ELSE WorstFoldLast(idx + 1, pop, worstIdx, worstConf)

\* lines 362-369: index and conflicts of the first individual with the most conflicts
RECURSIVE WorstFold(_, _, _, _)
WorstFold(idx, pop, worstIdx, worstConf) ==
  IF idx > Len(pop) THEN [worstIdx |-> worstIdx, worstConf |-> worstConf]
  ELSE IF pop[idx].conflicts > worstConf
         THEN WorstFold(idx + 1, pop, idx, pop[idx].conflicts)
         ELSE WorstFold(idx + 1, pop, worstIdx, worstConf)

\* the replacement test without the duplicate guard
acceptChildNoGuard(childConflicts, worstConf, isDuplicate) == childConflicts < worstConf

\* a replacement test that never lets the child in
acceptChildNever(childConflicts, worstConf, isDuplicate) == FALSE

\* line 374: the replacement test
acceptChild(childConflicts, worstConf, isDuplicate) ==
  childConflicts < worstConf /\ ~isDuplicate

\* the child pushed onto the population instead of replacing the worst
replaceWorstPush(pop, worstIdx, ind) == Append(pop, ind)

\* line 375: newPopulation[worstIdx] = { coloring: childImproved, conflicts: childConflicts }
replaceWorst(pop, worstIdx, ind) == [pop EXCEPT ![worstIdx] = ind]

\* the scan for the best with the comparison reversed
RECURSIVE BestFoldReversed(_, _, _)
BestFoldReversed(idx, pop, best) ==
  IF idx > Len(pop) THEN best
  ELSE IF pop[idx].conflicts > best.conflicts THEN BestFoldReversed(idx + 1, pop, pop[idx])
  ELSE BestFoldReversed(idx + 1, pop, best)

\* lines 382-389: the first individual with the fewest conflicts
RECURSIVE BestFold(_, _, _)
BestFold(idx, pop, best) ==
  IF idx > Len(pop) THEN best
  ELSE IF pop[idx].conflicts < best.conflicts THEN BestFold(idx + 1, pop, pop[idx])
  ELSE BestFold(idx + 1, pop, best)

\* lines 344-348: two tournaments, then gpxCrossover(p1.coloring, p2.coloring, k, graph)
HEASelect ==
  /\ pc = "HEA_begin"
  /\ LET Draws == [1..TournamentSize -> 1..Len(population)]
         kept(draws) == TournamentFold(draws, population, NoNode, Infinity)
         \* one sequence of draws for each index a tournament can keep
         outcomes == {CHOOSE d \in Draws : kept(d) = idx : idx \in {kept(d) : d \in Draws}}
     IN \E d1 \in outcomes, d2 \in outcomes :
          /\ p1' = tournament(d1, population) /\ p2' = tournament(d2, population)
          /\ alias' = sameObject(sameObject(alias, Ref("p1"), Member("population", kept(d1))),
                                 Ref("p2"), Member("population", kept(d2)))
  /\ pc' = "GPX_begin"
  /\ UNCHANGED <<inputVars, formVars, entry, err, dsaturVars, tabuVars, gpxVars, newPopulation, heaOut,
                 ipVars, topVars>>

\* lines 351-357: runTabuCol(graph, k, childInit, maxIterTabu, tabuTenure); the parameters
\* p1 and p2 of gpxCrossover (the two colorings) are out of scope since it returned
HEARefine ==
  /\ pc = "GPX_done" /\ entry \in {"runHEAStep", "tick"}
  /\ initialColoring' = child
  /\ alias' = sameObject(outOfScope(outOfScope(alias, Ref("p1")), Ref("p2")),
                         Ref("initialColoring"), Ref("child"))
  /\ maxIter' = params.maxIterTabu
  /\ pc' = "Tabu_begin"
  /\ UNCHANGED <<inputVars, formVars, entry, err, dsaturVars, currentS, bestS, currentConflicts,
                 bestConflicts, tabuMatrix, iter, lastMove, leftAt, minSeen, gpxVars, heaVars, ipVars, topVars>>

\* lines 359-391: replacement, best of the new population, return
HEAReplace ==
  /\ pc = "Tabu_done" /\ entry \in {"runHEAStep", "tick"}
  /\ LET childImproved == bestS
         childConflicts == bestConflicts
         worst == WorstFold(1, population, -1, -1)
         isDuplicate == \E idx \in 1..Len(population) : population[idx].conflicts = childConflicts
         accept == acceptChild(childConflicts, worst.worstConf, isDuplicate)
         result == IF accept
                     THEN replaceWorst(population, worst.worstIdx,
                                       [coloring |-> childImproved, conflicts |-> childConflicts])
                     ELSE population
         best == BestFold(1, result, result[1])
     IN /\ newPopulation' = result
        /\ alias' = LET copied == spreadArray(alias, "newPopulation", "population")
                     IN IF accept
                          THEN sameObject(copied, Member("newPopulation", worst.worstIdx), Ref("bestS"))
                          ELSE copied
        /\ heaOut' = [best |-> best.coloring, bestConflicts |-> best.conflicts,
                      childConflicts |-> childConflicts, worstIdx |-> worst.worstIdx,
                      worstConf |-> worst.worstConf, isDuplicate |-> isDuplicate,
                      replaced |-> accept]
  /\ pc' = "HEA_done"
  /\ UNCHANGED <<inputVars, formVars, entry, err, dsaturVars, tabuVars, gpxVars, p1, p2, ipVars, topVars>>

\* ---------------------------------------------------------- initPopulation
\* line 396 true, line 399: runDSATUR(graph, params.k)
IPLoop ==
  /\ pc = "IP_loop"
  /\ i < params.popSize
  /\ pc' = "DSATUR_begin"
  /\ UNCHANGED <<inputVars, formVars, heapVars, entry, err, dsaturVars, tabuVars, gpxVars, heaVars, ipVars, topVars>>

\* line 401: runTabuCol(graph, k, initC, maxIterTabu, tabuTenure)
IPRefine ==
  /\ pc = "DSATUR_done" /\ entry \in {"initPopulation", "startHEA"}
  /\ initialColoring' = coloring
  /\ alias' = sameObject(alias, Ref("initialColoring"), Ref("coloring"))
  /\ maxIter' = params.maxIterTabu
  /\ pc' = "Tabu_begin"
  /\ UNCHANGED <<inputVars, formVars, entry, err, dsaturVars, currentS, bestS, currentConflicts,
                 bestConflicts, tabuMatrix, iter, lastMove, leftAt, minSeen, gpxVars, heaVars, ipVars, topVars>>

\* line 402: population.push(res); next i
IPPush ==
  /\ pc = "Tabu_done" /\ entry \in {"initPopulation", "startHEA"}
  /\ individuals' = Append(individuals, [coloring |-> bestS, conflicts |-> bestConflicts])
  /\ alias' = sameObject(alias, Member("individuals", i + 1), Ref("bestS"))
  /\ i' = i + 1
  /\ pc' = "IP_loop"
  /\ UNCHANGED <<inputVars, formVars, entry, err, dsaturVars, tabuVars, gpxVars, heaVars, topVars>>

\* line 396 false, line 404: return population
IPExit ==
  /\ pc = "IP_loop"
  /\ i >= params.popSize
  /\ pc' = "IP_done"
  /\ UNCHANGED <<inputVars, formVars, heapVars, entry, err, dsaturVars, tabuVars, gpxVars, heaVars, ipVars, topVars>>

\* ---------------------------------------------------------------- top level
\* the early return of runAlgorithm that is left out
runAlgorithmReturnsNever == FALSE

\* App, line 91: if (isRunning) return (the three buttons are disabled by the same flag,
\* lines 292, 299 and 306)
runAlgorithmReturns == isRunning

\* App, line 252: the Generate Graph button is disabled
generateDisabled == isRunning

\* the model follows one population per behaviour: a call or a regeneration is explored
\* before a population is held, and at every moment a timer is installed
Explored == population = <<>> \/ timer

\* runDSATUR(graph, params.k) called from the top level (runAlgorithm('DSATUR'), lines 91-94)
CallDSATUR ==
  /\ pc = "idle" /\ ~runAlgorithmReturns
  /\ Explored
  /\ entry' = "runDSATUR"
  /\ pc' = "DSATUR_begin"
  /\ UNCHANGED <<inputVars, formVars, heapVars, err, dsaturVars, tabuVars, gpxVars, heaVars, ipVars, topVars>>

\* the seeds a caller may pass to runTabuCol: total over the nodes, values 0..k+1
Seeds == [NodeIds(graph) -> 0..(params.k + 1)]

\* the graphs for which seeds are drawn
SeedGraphs == {g \in Graphs : N(g) <= MaxSeedN} \cup ScenarioGraphs

\* runTabuCol(graph, params.k, seed, MaxIter, params.tabuTenure) called from the top level
CallTabuCol ==
  /\ pc = "idle" /\ ~isRunning
  /\ population = <<>>
  /\ params.k <= MaxSearchK
  /\ entry' = "runTabuCol"
  /\ graph \in SeedGraphs
  /\ \E seed \in Seeds : initialColoring' = seed
  /\ alias' = newObject(alias, Ref("initialColoring"))
  /\ maxIter' = MaxIter
  /\ pc' = "Tabu_begin"
  /\ UNCHANGED <<inputVars, formVars, err, dsaturVars, currentS, bestS, currentConflicts, bestConflicts,
                 tabuMatrix, iter, lastMove, leftAt, minSeen, gpxVars, heaVars, ipVars, topVars>>

\* least conflict count stored in a non-empty population
RECURSIVE MinConflicts(_)
MinConflicts(pop) ==
  IF Len(pop) = 1 THEN pop[1].conflicts
  ELSE Min(pop[1].conflicts, MinConflicts(Tail(pop)))

\* the individuals a caller can hold for the graph: a coloring in 1..k with its conflict count
Individuals ==
  {[coloring |-> col, conflicts |-> countConflicts(col, graph.adjacency)] :
     col \in [NodeIds(graph) -> 1..params.k]}

\* initPopulation(graph, params) called from the top level
CallInitPopulation ==
  /\ pc = "idle" /\ ~isRunning
  /\ population = <<>>
  /\ entry' = "initPopulation"
  /\ pc' = "IP_loop"
  /\ UNCHANGED <<inputVars, formVars, heapVars, err, dsaturVars, tabuVars, gpxVars, heaVars, ipVars, topVars>>

\* initPopulation returned: the caller keeps the population and its best conflict count
FinishInit ==
  /\ pc = "IP_done" /\ entry = "initPopulation"
  /\ population' = individuals
  /\ alias' = handOver(alias, "individuals")
  /\ reported' = IF individuals = <<>> THEN NoReport ELSE MinConflicts(individuals)
  /\ heaIter' = 0
  /\ holder' = "caller"
  /\ UNCHANGED <<isRunning, timer, timers, invoked>>
  /\ pc' = "idle" /\ entry' = "none"
  /\ DropLocals
  /\ UNCHANGED <<inputVars, formVars, err>>

\* the graphs for which a caller-built population is drawn
PopGraphs == {g \in Graphs : N(g) <= MaxPopN} \cup ScenarioGraphs

\* the individual that gives every node color 1
AllOnes ==
  LET col == [id \in NodeIds(graph) |-> 1]
  IN [coloring |-> col, conflicts |-> countConflicts(col, graph.adjacency)]

\* a caller that built its population itself: any individual a first, then copies of AllOnes
SupplyPopulation ==
  /\ pc = "idle" /\ ~isRunning
  /\ population = <<>>
  /\ graph \in PopGraphs
  /\ params.k <= MaxSearchK
  /\ \E a \in Individuals :
       LET pop == [j \in 1..params.popSize |-> IF j = 1 THEN a ELSE AllOnes]
       IN /\ population' = pop
          /\ reported' = MinConflicts(pop)
  /\ holder' = "caller"
  /\ UNCHANGED <<inputVars, formVars, heapVars, pc, entry, err, dsaturVars, tabuVars, gpxVars, heaVars, ipVars, heaIter,
                 isRunning, timer, timers, invoked>>

\* runHEAStep(population, graph, params) called from the top level
CallHEAStep ==
  /\ pc = "idle"
  /\ holder = "caller"
  /\ heaIter < params.maxIterHEA
  /\ entry' = "runHEAStep"
  /\ pc' = "HEA_begin"
  /\ UNCHANGED <<inputVars, formVars, heapVars, err, dsaturVars, tabuVars, gpxVars, heaVars, ipVars, topVars>>

\* runHEAStep returned: the caller keeps newPopulation and the reported bestConflicts
FinishStep ==
  /\ pc = "HEA_done" /\ entry = "runHEAStep"
  /\ UNCHANGED appVars
  /\ population' = newPopulation
  /\ alias' = handOver(alias, "newPopulation")
  /\ reported' = heaOut.bestConflicts
  /\ heaIter' = heaIter + 1
  /\ pc' = "idle" /\ entry' = "none"
  /\ DropLocals
  /\ UNCHANGED <<inputVars, formVars, err>>

\* --------------------------------------------------------------------- App
\* runAlgorithm('TabuCol'), lines 91 and 100: runDSATUR(graph, params.k) first
CallAlgoTabuCol ==
  /\ pc = "idle" /\ ~runAlgorithmReturns
  /\ Explored
  /\ entry' = "TabuCol"
  /\ pc' = "DSATUR_begin"
  /\ UNCHANGED <<inputVars, formVars, heapVars, err, dsaturVars, tabuVars, gpxVars, heaVars, ipVars, topVars>>

\* line 101: runTabuCol(graph, params.k, init, budget, params.tabuTenure); the budget of
\* the application is 1000, the model draws it from 1..MaxIter
AlgoTabuColRefine ==
  /\ pc = "DSATUR_done" /\ entry = "TabuCol"
  /\ initialColoring' = coloring
  /\ alias' = sameObject(alias, Ref("initialColoring"), Ref("coloring"))
  /\ \E budget \in 1..MaxIter : maxIter' = budget
  /\ pc' = "Tabu_begin"
  /\ UNCHANGED <<inputVars, formVars, entry, err, dsaturVars, currentS, bestS, currentConflicts,
                 bestConflicts, tabuMatrix, iter, lastMove, leftAt, minSeen, gpxVars, heaVars, ipVars, topVars>>

\* the timer callback never stops for the budget
budgetSpentNever(it, maxIterHEA) == FALSE

\* line 135
budgetSpent(it, maxIterHEA) == it >= maxIterHEA

\* lines 127 and 148
converged(conflicts) == conflicts = 0

\* runAlgorithm('HEA'), lines 91 and 107; startHEA lines 112-116: setIsRunning(true), initPopulation
StartHEA ==
  /\ pc = "idle" /\ ~runAlgorithmReturns
  /\ Explored
  /\ isRunning' = TRUE
  /\ entry' = "startHEA"
  /\ pc' = "IP_loop"
  /\ UNCHANGED <<inputVars, formVars, heapVars, err, dsaturVars, tabuVars, gpxVars, heaVars, ipVars,
                 population, heaIter, reported, holder, timer, timers, invoked>>

\* App, lines 77-88: handleGenerateGraph replaces the graph (random or parsed from the
\* manual edge list) for the number of nodes typed in
handleGenerateGraph ==
  /\ pc = "idle" /\ ~generateDisabled
  /\ Explored
  /\ \E g \in Graphs : graph' = g /\ numNodes' = N(g)
  /\ UNCHANGED <<params, input, pairs, formVars, heapVars, pc, entry, err, dsaturVars, tabuVars, gpxVars,
                 heaVars, ipVars, topVars>>

\* App, line 271: the k input sets params.k at any time, also during a run (the inputs are
\* never disabled). The next button handler reads the params of the latest render; once
\* startHEA has built a population, the callback of its timer keeps the params of the
\* render that called startHEA.
setParams ==
  /\ pc = "idle" /\ holder # "caller"
  /\ \E k \in 0..MaxK :
       /\ k # formParams.k
       /\ formParams' = [formParams EXCEPT !.k = k]
  /\ params' = IF holder = "app" THEN params ELSE formParams'
  /\ UNCHANGED <<graph, numNodes, input, pairs, heapVars, pc, entry, err, dsaturVars, tabuVars, gpxVars,
                 heaVars, ipVars, topVars>>

\* startHEA lines 116-134: keep the population, report its best, stop at once when it is
\* 0 and install the interval timer otherwise
StartHEAInit ==
  /\ pc = "IP_done" /\ entry = "startHEA"
  /\ population' = individuals
  /\ alias' = handOver(alias, "individuals")
  /\ heaIter' = 0
  /\ holder' = "app"
  /\ invoked' = 0
  /\ LET best == BestFold(1, individuals, individuals[1])
     IN /\ reported' = best.conflicts
        /\ IF converged(best.conflicts)
             THEN isRunning' = FALSE /\ UNCHANGED <<timer, timers>>
             ELSE timer' = TRUE /\ timers' = timers + 1 /\ UNCHANGED isRunning
  /\ pc' = "idle" /\ entry' = "none"
  /\ DropLocals
  /\ UNCHANGED <<inputVars, formVars, err>>

\* stopHEA, lines 155-160: the timer simulationInterval.current refers to is cleared
stopHEA ==
  /\ timers' = IF timer THEN timers - 1 ELSE timers
  /\ timer' = FALSE
  /\ isRunning' = FALSE

\* a tick with the budget spent, lines 135-137
TickStop ==
  /\ pc = "idle" /\ timer
  /\ budgetSpent(heaIter, params.maxIterHEA)
  /\ stopHEA
  /\ UNCHANGED <<inputVars, formVars, heapVars, pc, entry, err, dsaturVars, tabuVars, gpxVars, heaVars, ipVars,
                 population, heaIter, reported, holder, invoked>>

\* a tick that runs a generation, line 140: runHEAStep(populationRef.current, graph, params)
TickStep ==
  /\ pc = "idle" /\ timer
  /\ ~budgetSpent(heaIter, params.maxIterHEA)
  /\ entry' = "tick"
  /\ invoked' = invoked + 1
  /\ pc' = "HEA_begin"
  /\ UNCHANGED <<inputVars, formVars, heapVars, err, dsaturVars, tabuVars, gpxVars, heaVars, ipVars,
                 population, heaIter, reported, holder, isRunning, timer, timers>>

\* the rest of the tick, lines 142-150
TickFinish ==
  /\ pc = "HEA_done" /\ entry = "tick"
  /\ population' = newPopulation
  /\ alias' = handOver(alias, "newPopulation")
  /\ reported' = heaOut.bestConflicts
  /\ heaIter' = heaIter + 1
  /\ IF converged(heaOut.bestConflicts) THEN stopHEA ELSE UNCHANGED <<isRunning, timer, timers>>
  /\ pc' = "idle" /\ entry' = "none"
  /\ DropLocals
  /\ UNCHANGED <<inputVars, formVars, err, holder, invoked>>

\* the top-level call is over (returned or threw): its locals are gone
Finish ==
  /\ \/ pc = "thrown"
     \/ pc = "DSATUR_done" /\ entry = "runDSATUR"
     \/ pc = "Tabu_done" /\ entry \in {"runTabuCol", "TabuCol"}
  /\ pc' = "idle" /\ entry' = "none" /\ err' = "none"
  /\ DropLocals
  /\ alias' = handOver(alias, "population")
  /\ UNCHANGED <<inputVars, formVars, topVars>>

Next ==
  \/ CallDSATUR
  \/ DSATURBegin
  \/ DSATURRound
  \/ DSATURExit
  \/ CallTabuCol
  \/ TabuBegin
  \/ TabuMove
  \/ TabuForcedMove
  \/ TabuExit
  \/ GPXBegin
  \/ GPXSlot
  \/ GPXFill
  \/ SupplyPopulation
  \/ CallHEAStep
  \/ HEASelect
  \/ HEARefine
  \/ HEAReplace
  \/ FinishStep
  \/ CallInitPopulation
  \/ IPLoop
  \/ IPRefine
  \/ IPPush
  \/ IPExit
  \/ FinishInit
  \/ CallAlgoTabuCol
  \/ AlgoTabuColRefine
  \/ StartHEA
  \/ StartHEAInit
  \/ TickStop
  \/ TickStep
  \/ TickFinish
  \/ handleGenerateGraph
  \/ setParams
  \/ Finish

Spec == Init /\ [][Next]_vars

\* the steps the JavaScript engine takes by itself: the steps of a started call and the
\* callback of an installed interval timer. What is left of Next is a user or a caller
\* starting something.
Scheduled ==
  \/ DSATURBegin \/ DSATURRound \/ DSATURExit
  \/ TabuBegin \/ TabuMove \/ TabuForcedMove \/ TabuExit
  \/ GPXBegin \/ GPXSlot \/ GPXFill
  \/ HEASelect \/ HEARefine \/ HEAReplace \/ FinishStep
  \/ IPLoop \/ IPRefine \/ IPPush \/ IPExit \/ FinishInit
  \/ AlgoTabuColRefine \/ StartHEAInit
  \/ TickStop \/ TickStep \/ TickFinish
  \/ Finish

\* the event loop runs whatever is due: a started call runs to its end and an installed
\* interval timer keeps ticking, whatever the user does in between
FairSpec == Spec /\ WF_vars(Scheduled)

\* ---------------------------------------------------- runDSATUR on its own
\* runDSATUR called from the top level, again and again; a started call runs to its end
DsaturNext == CallDSATUR \/ DSATURBegin \/ DSATURRound \/ DSATURExit \/ Finish

DsaturSpec ==
  Init /\ [][DsaturNext]_vars /\ WF_vars(DSATURBegin \/ DSATURRound \/ DSATURExit \/ Finish)

\* -------------------------------------------------- gpxCrossover on its own
\* two disjoint edges, 1-2 and 3-4: two proper 2-colorings can differ by more than a
\* renaming of the colors
TwoEdges == generateErdosRenyi(4, {<<1, 2>>, <<3, 4>>})

\* the graphs for which pairs of parents are drawn
GpxGraphs == PopGraphs \cup {Paw, TwoEdges}

GpxInit ==
  /\ graph \in GpxGraphs
  /\ numNodes = N(graph) /\ input = <<>> /\ pairs = <<>>
  /\ \E k \in 0..MaxSearchK :
        params = [k |-> k, popSize |-> PopSize, maxIterTabu |-> MaxIterTabu,
                  tabuTenure |-> TabuTenure, maxIterHEA |-> MaxIterHEA]
  /\ formParams = params
  /\ alias = {}
  /\ pc = "idle" /\ entry = "none" /\ err = "none"
  /\ LocalsIdle
  /\ population = <<>> /\ heaIter = 0 /\ reported = NoReport
  /\ holder = "none" /\ isRunning = FALSE /\ timer = FALSE /\ timers = 0 /\ invoked = 0

\* gpxCrossover(p1.coloring, p2.coloring, params.k, graph) for any two individuals of the
\* graph (line 348 calls it with the two tournament winners)
CallGpxCrossover ==
  /\ pc = "idle"
  /\ \E a \in Individuals, b \in Individuals : p1' = a /\ p2' = b
  /\ alias' = newObject(newObject(alias, Ref("p1")), Ref("p2"))
  /\ entry' = "gpxCrossover"
  /\ pc' = "GPX_begin"
  /\ UNCHANGED <<inputVars, formVars, err, dsaturVars, tabuVars, gpxVars, newPopulation, heaOut,
                 ipVars, topVars>>

\* line 319: return child; the locals of the call are gone
GpxReturn ==
  /\ pc = "GPX_done" /\ entry = "gpxCrossover"
  /\ pc' = "idle" /\ entry' = "none"
  /\ DropLocals
  /\ alias' = handOver(alias, "population")
  /\ UNCHANGED <<inputVars, formVars, err, topVars>>

GpxNext == CallGpxCrossover \/ GPXBegin \/ GPXSlot \/ GPXFill \/ GpxReturn

GpxSpec == GpxInit /\ [][GpxNext]_vars

\* --------------------------------------------- parseEdgesInput on its own
\* the pieces the texts are made of: every pair "(u,v)" with ids in 0..MaxParseN + 1,
\* and fragments that are no pair by themselves
PairChunks == {<<"(", Digits[u + 1], ",", Digits[v + 1], ")">> : u, v \in 0..(MaxParseN + 1)}
JunkChunks == {<<" ">>, <<"(">>, <<")">>, <<",">>, <<"1">>, <<"(", "1">>, <<",", "2", ")">>}
Chunks == PairChunks \cup JunkChunks

RECURSIVE Flatten(_)
Flatten(chunks) == IF chunks = <<>> THEN <<>> ELSE Head(chunks) \o Flatten(Tail(chunks))

Texts == {Flatten(chunks) : chunks \in UNION {[1..len -> Chunks] : len \in 0..MaxChunks}}

\* parseEdgesInput(input, numNodes) is called: lines 28-31 have built the nodes and the
\* empty adjacency
ParseInit ==
  /\ numNodes \in 0..MaxParseN
  /\ input \in Texts
  /\ graph = EmptyGraphOn(numNodes)
  /\ pairs = <<>>
  /\ params = [k |-> 1, popSize |-> PopSize, maxIterTabu |-> MaxIterTabu,
               tabuTenure |-> TabuTenure, maxIterHEA |-> MaxIterHEA]
  /\ formParams = params
  /\ alias = {}
  /\ pc = "parse_begin" /\ entry = "parseEdgesInput" /\ err = "none"
  /\ LocalsIdle
  /\ population = <<>> /\ heaIter = 0 /\ reported = NoReport
  /\ holder = "none" /\ isRunning = FALSE /\ timer = FALSE /\ timers = 0 /\ invoked = 0

\* lines 34-35: strip the whitespace, collect the matches
ParseMatch ==
  /\ pc = "parse_begin"
  /\ pairs' = matchPairs(cleanInput(input))
  /\ pc' = "parse_loop"
  /\ UNCHANGED <<graph, params, formVars, heapVars, numNodes, input, entry, err, dsaturVars, tabuVars, gpxVars,
                 heaVars, ipVars, topVars>>

\* lines 38-52: one round of pairs.forEach
ParsePair ==
  /\ pc = "parse_loop"
  /\ pairs # <<>>
  /\ LET u == pairOf(Head(pairs))[1]
         v == pairOf(Head(pairs))[2]
     IN graph' = IF acceptPair(graph, u, v, numNodes) THEN AddLink(graph, u, v) ELSE graph
  /\ pairs' = Tail(pairs)
  /\ UNCHANGED <<params, formVars, heapVars, numNodes, input, pc, entry, err, dsaturVars, tabuVars, gpxVars,
                 heaVars, ipVars, topVars>>

\* line 56: return { nodes, links, adjacency }
ParseReturn ==
  /\ pc = "parse_loop"
  /\ pairs = <<>>
  /\ pc' = "parse_done"
  /\ UNCHANGED <<inputVars, formVars, heapVars, entry, err, dsaturVars, tabuVars, gpxVars, heaVars, ipVars, topVars>>

ParseNext == ParseMatch \/ ParsePair \/ ParseReturn

ParseSpec == ParseInit /\ [][ParseNext]_vars

\* ================================================================== claims
TabuActive == pc = "Tabu_loop"

InRange(col, k) == \A id \in DOMAIN col : col[id] \in 1..k

\* the edges (links) whose two endpoints hold the same non-zero color
EdgeRecount(col, links) ==
  Cardinality({j \in 1..Len(links) :
                 col[links[j][1]] = col[links[j][2]] /\ col[links[j][1]] # 0})

\* adjacency symmetric, no self-loop, no neighbour listed twice, one link per edge
WellFormed(g) ==
  /\ \A u \in NodeIds(g) :
       /\ \A j \in 1..Len(g.adjacency[u]) :
            /\ g.adjacency[u][j] \in NodeIds(g) \ {u}
            /\ u \in Range(g.adjacency[g.adjacency[u][j]])
       /\ Cardinality(Range(g.adjacency[u])) = Len(g.adjacency[u])
  /\ \A a, b \in 1..Len(g.links) :
       a # b => {g.links[a][1], g.links[a][2]} # {g.links[b][1], g.links[b][2]}
  /\ \A u, v \in NodeIds(g) :
       v \in Range(g.adjacency[u]) <=>
         \E j \in 1..Len(g.links) : {g.links[j][1], g.links[j][2]} = {u, v} /\ u # v

\* C1: on a graph with at least one vertex and k >= 1, runDSATUR does not throw
\* and returns a coloring whose keys are exactly the vertices, every value in 1..k.
C1_DsaturCompleteInRange ==
  /\ (entry = "runDSATUR" /\ N(graph) >= 1 /\ params.k >= 1) => err = "none"
  /\ (pc = "DSATUR_done" /\ params.k >= 1) =>
       /\ DOMAIN coloring = NodeIds(graph)
       /\ InRange(coloring, params.k)

\* C1 witness: runDSATUR returned on a 3-vertex graph where the cap at k forced a conflict
C1_Witness ==
  /\ pc = "DSATUR_done" /\ entry = "runDSATUR"
  /\ N(graph) = 3 /\ params.k = 2
  /\ countConflicts(coloring, graph.adjacency) > 0

\* C2 (as claimed): on the empty graph (k >= 1) nothing throws; runDSATUR returns the empty
\* coloring and initPopulation returns popSize individuals (empty coloring, 0 conflicts).
C2_EmptyGraphNoError ==
  (N(graph) = 0 /\ params.k >= 1) =>
    /\ err = "none"
    /\ pc = "DSATUR_done" => coloring = <<>>
    /\ pc = "IP_done" =>
         individuals = [j \in 1..params.popSize |-> [coloring |-> <<>>, conflicts |-> 0]]

\* C3: on a well-formed graph, for every coloring with values in 0..k, countConflicts
\* is the number of edges whose endpoints hold the same non-zero color.
C3_CountConflictsIsEdgeCount ==
  (TabuActive /\ WellFormed(graph) /\ \A id \in DOMAIN currentS : currentS[id] \in 0..params.k) =>
    /\ countConflicts(currentS, graph.adjacency) = EdgeRecount(currentS, graph.links)
    /\ (lastMove.kind = "none" \/ (lastMove.kind = "forced" /\ lastMove.newColor # lastMove.oldColor))
         => currentConflicts = EdgeRecount(currentS, graph.links)

\* C3 witness: a counted coloring with an uncolored edge (0-0) beside a conflicting edge
C3_Witness ==
  /\ pc = "Tabu_loop" /\ lastMove.kind = "none"
  /\ \E j \in 1..Len(graph.links) :
       currentS[graph.links[j][1]] = 0 /\ currentS[graph.links[j][2]] = 0
  /\ currentConflicts = 1

\* C4: the best conflict count reported by a runHEAStep call is never above the one
\* reported before it (the minimum of the initial population before the first call).
C4_BestNeverIncreases ==
  [][(pc = "HEA_done" /\ pc' = "idle") =>
       /\ reported' = heaOut.bestConflicts
       /\ reported' <= reported
       /\ reported' <= MinConflicts(population)]_vars

\* C4 witness: a second step has returned and the reported best went down in it
C4_Witness ==
  /\ pc = "HEA_done" /\ heaIter = 1
  /\ heaOut.bestConflicts < reported

\* C5 (as claimed): whatever the seed, for k >= 1 the working coloring and the best-seen
\* coloring of runTabuCol hold only colors of 1..k, from the start of the search to the return.
C5_SeedNormalized ==
  params.k >= 1 =>
    /\ TabuActive => InRange(currentS, params.k) /\ InRange(bestS, params.k)
    /\ pc = "Tabu_done" => InRange(bestS, params.k)

SeedAtLeastOne == \A id \in DOMAIN initialColoring : initialColoring[id] >= 1

\* C6: from a seed with all colors >= 1, after every iteration of runTabuCol the running
\* total equals countConflicts of the current coloring and is not negative.
C6_RunningTotalInSync ==
  (TabuActive /\ SeedAtLeastOne) =>
    /\ currentConflicts = countConflicts(currentS, graph.adjacency)
    /\ currentConflicts >= 0

\* C6 witness: after delta-tracked moves, a forced random move that recolored a node
C6_Witness ==
  /\ TabuActive /\ SeedAtLeastOne
  /\ lastMove.kind = "forced" /\ lastMove.newColor # lastMove.oldColor
  /\ iter >= 3

\* C7 (as claimed): runTabuCol returns the best-seen state: the returned count is
\* countConflicts of the returned coloring and the least count over every coloring that
\* was current; a forced random move never leaves the running total below the best.
C7_ReturnsBestSeen ==
  params.k >= 1 =>
    /\ pc = "Tabu_done" =>
         /\ bestConflicts = countConflicts(bestS, graph.adjacency)
         /\ bestConflicts = minSeen
    /\ (TabuActive /\ lastMove.kind = "forced") => currentConflicts >= bestConflicts

\* C8: for parents with all values in 1..k, gpxCrossover returns a child that gives
\* every vertex of the graph a color in 1..k.
C8_GpxTotal ==
  (pc = "GPX_done" /\ InRange(p1.coloring, params.k) /\ InRange(p2.coloring, params.k)) =>
    /\ DOMAIN child = NodeIds(graph)
    /\ InRange(child, params.k)

\* C8 witness: a crossover returned after the random fill had vertices to color
C8_Witness ==
  /\ pc = "GPX_done"
  /\ unassigned # {}
  /\ p1.coloring # p2.coloring

MaxConflicts(pop) == CHOOSE m \in {pop[j].conflicts : j \in 1..Len(pop)} :
                       \A j \in 1..Len(pop) : pop[j].conflicts <= m

\* C9: the refined child replaces the worst individual iff it has strictly fewer
\* conflicts than the worst and no individual has exactly its conflict count;
\* otherwise the returned population is the input population.
C9_ReplacementRule ==
  pc = "HEA_done" =>
    LET ind == [coloring |-> bestS, conflicts |-> bestConflicts]
        rule == /\ bestConflicts < MaxConflicts(population)
                /\ \A j \in 1..Len(population) : population[j].conflicts # bestConflicts
    IN /\ rule => \E w \in 1..Len(population) :
                     /\ population[w].conflicts = MaxConflicts(population)
                     /\ newPopulation = [population EXCEPT ![w] = ind]
       /\ ~rule => newPopulation = population
       /\ heaOut.replaced <=> rule

\* C9 witness: a step that replaced the worst individual
C9_Witness ==
  /\ pc = "HEA_done"
  /\ heaOut.replaced
  /\ newPopulation # population

\* C10: initPopulation returns exactly popSize individuals and runHEAStep returns as
\* many individuals as it was given, so the held population keeps its size.
C10_PopulationSizeFixed ==
  /\ pc = "IP_done" => Len(individuals) = params.popSize
  /\ pc = "HEA_done" => Len(newPopulation) = Len(population)
  /\ population # <<>> => Len(population) = params.popSize

\* C10 witness: a second step replaced an individual and the population kept popSize members
C10_Witness ==
  /\ pc = "HEA_done"
  /\ heaIter = 1
  /\ heaOut.replaced
  /\ Len(newPopulation) = PopSize

\* C13 (as claimed): a call with k < 1 (here on a graph with vertices) surfaces
\* InvalidParameter at entry and does no work: it never gets past its first position
\* and produces no coloring or population.
C13_InvalidParameterAtEntry ==
  (params.k < 1 /\ N(graph) >= 1 /\ entry # "none") =>
    /\ pc \in {"DSATUR_begin", "Tabu_begin", "IP_loop", "HEA_begin", "thrown"}
    /\ pc = "thrown" => err = "InvalidParameter"
    /\ coloring = NoColoring /\ bestS = NoColoring /\ individuals = <<>>

\* C19 (as claimed): the vertex runDSATUR colors first (color 1) has maximum degree and is
\* the first vertex of maximum degree in the graph's node order.
C19_SeedIsFirstMaxDegree ==
  (pc = "DSATUR_loop" /\ params.k >= 1 /\ uncoloredCount(graph, coloring) = N(graph) - 1) =>
    \E j \in 1..N(graph) :
      /\ coloring[graph.nodes[j]] = 1
      /\ \A m \in 1..N(graph) : degrees(graph)[graph.nodes[m]] <= degrees(graph)[graph.nodes[j]]
      /\ \A m \in 1..(j - 1) : degrees(graph)[graph.nodes[m]] < degrees(graph)[graph.nodes[j]]

\* C20 (as claimed): at iteration iter a candidate move (u, color) is treated as tabu exactly
\* when iter is strictly less than the index stored for (u, color); at the first iteration
\* of a call no move is tabu.
C20_TabuWhileStrictlyLess ==
  (TabuRunning /\ SeedAtLeastOne) =>
    \A u \in conflictedNodes(graph, currentS), color \in 1..params.k :
      color # currentS[u] =>
        /\ isTabu(tabuMatrix, [node |-> u, newColor |-> color], iter) <=> iter < tabuMatrix[u][color]
        /\ iter = 1 => ~isTabu(tabuMatrix, [node |-> u, newColor |-> color], iter)

C12_RunTerminates == (isRunning /\ params.k >= 1) ~> (~isRunning /\ ~timer)

\* the 4-cycle 1-2-3-4-1 and the complete graph on 3 vertices, whatever the order of their lists
IsCycle4(g) ==
  /\ N(g) = 4
  /\ {{g.links[j][1], g.links[j][2]} : j \in 1..Len(g.links)} = {{1, 2}, {2, 3}, {3, 4}, {4, 1}}

IsTriangle(g) == N(g) = 3 /\ Len(g.links) = 3

AllColorOne(col) == \A id \in DOMAIN col : col[id] = 1

\* C15: on the 4-cycle with k = 2, runDSATUR followed by runTabuCol returns a coloring
\* with 0 conflicts, for every budget, tenure and random choice.
C15_Cycle4TwoColors ==
  (pc = "Tabu_done" /\ entry = "TabuCol" /\ IsCycle4(graph) /\ params.k = 2) =>
    /\ bestConflicts = 0
    /\ InRange(bestS, 2)
    /\ EdgeRecount(bestS, graph.links) = 0

\* C15 witness: the chain returned on the 4-cycle with k = 2
C15_Witness ==
  /\ pc = "Tabu_done" /\ entry = "TabuCol"
  /\ graph = Cycle4 /\ params.k = 2
  /\ maxIter = MaxIter

\* C16: with k = 1 on a non-empty graph runDSATUR gives every vertex color 1, with as many
\* conflicts as edges, and runTabuCol on that seed never recolors a vertex and returns the
\* seed with the number of edges as its conflict count.
C16_OneColor ==
  (params.k = 1 /\ N(graph) >= 1) =>
    /\ pc = "DSATUR_done" =>
         /\ AllColorOne(coloring)
         /\ countConflicts(coloring, graph.adjacency) = Len(graph.links)
    /\ (pc = "Tabu_loop" /\ AllColorOne(initialColoring)) =>
         /\ currentS = initialColoring
         /\ lastMove.kind # "delta"
         /\ currentConflicts = Len(graph.links)
    /\ (pc = "Tabu_done" /\ AllColorOne(initialColoring)) =>
         /\ bestS = initialColoring
         /\ bestConflicts = Len(graph.links)

\* C16 witness: on the 4-cycle with k = 1 the search spent its budget on forced moves
C16_Witness ==
  /\ pc = "Tabu_loop" /\ entry = "TabuCol"
  /\ graph = Cycle4 /\ params.k = 1
  /\ lastMove.kind = "forced" /\ iter > MaxIter
  /\ currentConflicts = 4

\* C17: on the complete graph on 3 vertices runDSATUR with k = 3 returns a coloring with 0
\* conflicts, and with k = 2 runDSATUR followed by runTabuCol returns a conflict count of 1.
C17_TriangleScenario ==
  IsTriangle(graph) =>
    /\ (pc = "DSATUR_done" /\ params.k = 3) =>
         countConflicts(coloring, graph.adjacency) = 0 /\ InRange(coloring, 3)
    /\ (pc = "Tabu_done" /\ entry = "TabuCol" /\ params.k = 2) => bestConflicts = 1

\* C17 witness: with k = 2 the search used its whole budget on the triangle and returned
C17_Witness ==
  /\ pc = "Tabu_done" /\ entry = "TabuCol"
  /\ graph = Triangle /\ params.k = 2
  /\ maxIter = MaxIter /\ minSeen = 1

\* the pairs (u, v) the text holds, in order
TextPairs == [j \in 1..Len(matchPairs(cleanInput(input))) |-> pairOf(matchPairs(cleanInput(input))[j])]

\* C14: the graph built by parseEdgesInput has the vertex ids 1..n in order and a symmetric
\* adjacency without self-loop or repeated neighbour; every link is a pair of the text with
\* both ids in 1..n, no edge has two links, and every pair of the text with two different
\* ids in 1..n has its edge in links.
C14_ParsedGraphWellFormed ==
  pc \in {"parse_loop", "parse_done"} =>
    /\ graph.nodes = [j \in 1..numNodes |-> j]
    /\ DOMAIN graph.adjacency = 1..numNodes
    /\ WellFormed(graph)
    /\ \A j \in 1..Len(graph.links) :
         /\ graph.links[j] \in Range(TextPairs)
         /\ graph.links[j][1] \in 1..numNodes /\ graph.links[j][2] \in 1..numNodes
    /\ pc = "parse_done" =>
         \A j \in 1..Len(TextPairs) :
           LET u == TextPairs[j][1]
               v == TextPairs[j][2]
           IN (u \in 1..numNodes /\ v \in 1..numNodes /\ u # v) =>
                 Cardinality({m \in 1..Len(graph.links) :
                                {graph.links[m][1], graph.links[m][2]} = {u, v}}) = 1

\* C14 witness: a text holding an edge and then the same edge reversed, parsed to one link
C14_Witness ==
  /\ pc = "parse_done"
  /\ Len(TextPairs) = 2
  /\ TextPairs[1] = <<1, 2>> /\ TextPairs[2] = <<2, 1>>
  /\ graph.links = <<<<1, 2>>>>

\* the uncolored vertices, and the saturation and static degree of a vertex, in a coloring
Uncolored(col) == {x \in DOMAIN col : col[x] = 0}
SaturationOf(g, col, x) == Cardinality({col[w] : w \in Range(g.adjacency[x])} \ {0})
DegreeOf(g, x) == Len(g.adjacency[x])

\* C23: in each runDSATUR round the vertex that gets colored is an uncolored vertex of
\* maximum saturation; among those, of maximum static degree; among those, the first in
\* the graph's node order.
C23_ChosenMaxSatDegFirst ==
  [][(pc = "DSATUR_loop" /\ coloring' # coloring) =>
       \E j \in 1..N(graph) :
         LET v == graph.nodes[j]
             sat(x) == SaturationOf(graph, coloring, x)
             deg(x) == DegreeOf(graph, x)
         IN /\ coloring[v] = 0 /\ coloring'[v] # 0
            /\ \A x \in Uncolored(coloring) : sat(x) <= sat(v)
            /\ \A x \in Uncolored(coloring) : sat(x) = sat(v) => deg(x) <= deg(v)
            /\ \A m \in 1..(j - 1) :
                 LET x == graph.nodes[m]
                 IN ~(coloring[x] = 0 /\ sat(x) = sat(v) /\ deg(x) = deg(v))]_vars

\* C23 witness: on the paw the first round passed over vertex 1 (same saturation, smaller
\* degree) and colored vertex 2, the first of the two vertices of degree 2
C23_Witness ==
  /\ pc = "DSATUR_loop" /\ graph = Paw
  /\ coloring[4] # 0 /\ coloring[2] # 0
  /\ coloring[1] = 0 /\ coloring[3] = 0

\* C24: for k >= 1, in each runDSATUR round the chosen vertex gets the smallest color >= 1
\* that none of its colored neighbours holds when that color is <= k; otherwise the color
\* of 1..k held by the fewest of its neighbours, the smallest such color on ties.
C24_LowestFreeElseFewest ==
  [][(pc = "DSATUR_loop" /\ coloring' # coloring /\ params.k >= 1) =>
       \A v \in NodeIds(graph) :
         (coloring[v] = 0 /\ coloring'[v] # 0) =>
           LET used == {coloring[w] : w \in Range(graph.adjacency[v])} \ {0}
               free == CHOOSE cc \in 1..(N(graph) + 1) :
                         cc \notin used /\ \A d \in 1..(cc - 1) : d \in used
               held(cc) == Cardinality({j \in 1..Len(graph.adjacency[v]) :
                                          coloring[graph.adjacency[v][j]] = cc})
               got == coloring'[v]
           IN IF free <= params.k
                THEN got = free
                ELSE /\ got \in 1..params.k
                     /\ \A d \in 1..params.k : held(got) <= held(d)
                     /\ \A d \in 1..(got - 1) : held(got) < held(d)]_vars

\* C24 witness: on the paw with k = 2 vertex 3 saw both colors on its neighbours, once
\* each, and got color 1
C24_Witness ==
  /\ pc = "DSATUR_loop" /\ graph = Paw /\ params.k = 2
  /\ coloring[4] = 1 /\ coloring[2] = 2 /\ coloring[3] = 1

\* C29: on a non-empty graph runDSATUR terminates: the seed step leaves |V| - 1 vertices
\* uncolored, each round of the main loop colors exactly one uncolored vertex and leaves
\* the colored ones alone, the loop is left only with no vertex uncolored, and a started
\* call reaches its return.
C29_DsaturTerminates ==
  /\ [][/\ (pc = "DSATUR_begin" /\ pc' = "DSATUR_loop") =>
             Cardinality(Uncolored(coloring')) = N(graph) - 1
        /\ (pc = "DSATUR_loop" /\ pc' = "DSATUR_loop") =>
             /\ Cardinality(Uncolored(coloring')) = Cardinality(Uncolored(coloring)) - 1
             /\ \A x \in NodeIds(graph) : coloring[x] # 0 => coloring'[x] = coloring[x]
        /\ (pc = "DSATUR_loop" /\ pc' = "DSATUR_done") =>
             /\ Uncolored(coloring) = {}
             /\ coloring' = coloring]_vars
  /\ (pc = "DSATUR_begin" /\ N(graph) >= 1) ~> (pc = "DSATUR_done")

\* C29 witness: runDSATUR returned on the paw: one seed step and three rounds
C29_Witness ==
  /\ pc = "DSATUR_done" /\ graph = Paw
  /\ Uncolored(coloring) = {}

\* C25: gpxCrossover fills slot c of 1..k from parent 1 when c is odd and from parent 2
\* when c is even: of that parent's color classes it takes the one with the most
\* still-unassigned vertices (the lowest color on ties), gives color c to exactly the
\* unassigned vertices of that class and removes them from the unassigned set.
C25_GpxSlotRule ==
  [][(pc = "GPX_slot" /\ c' = c + 1) =>
       LET parent == IF c % 2 = 1 THEN p1.coloring ELSE p2.coloring
           class(color) == {v \in NodeIds(graph) : parent[v] = color}
           size(color) == Cardinality(class(color) \cap unassigned)
           largest == CHOOSE color \in 1..params.k :
                        /\ \A d \in 1..params.k : size(d) <= size(color)
                        /\ \A d \in 1..(color - 1) : size(d) < size(color)
           moved == class(largest) \cap unassigned
       IN /\ c \in 1..params.k
          /\ child' = [v \in NodeIds(graph) |-> IF v \in moved THEN c ELSE child[v]]
          /\ unassigned' = unassigned \ moved]_vars

\* C25 witness: two slots were filled (parent 1, then parent 2) from different parents, the
\* two classes of parent 1 having the same size
C25_Witness ==
  /\ pc = "GPX_slot" /\ c = 3 /\ params.k = 2
  /\ p1.coloring # p2.coloring
  /\ Cardinality({v \in NodeIds(graph) : p1.coloring[v] = 1})
       = Cardinality({v \in NodeIds(graph) : p1.coloring[v] = 2})
  /\ \A v \in NodeIds(graph) : p1.coloring[v] = 1 => child[v] = 1

\* C26: after runHEAStep, if the refined child has fewer conflicts than the best of the
\* input population, the reported bestConflicts and best coloring are the child's; in all
\* cases the reported best coloring is an individual of the returned population whose
\* stored conflict count is the reported bestConflicts.
C26_BestIsChildWhenBetter ==
  pc = "HEA_done" =>
    /\ bestConflicts < MinConflicts(population) =>
         /\ heaOut.bestConflicts = bestConflicts
         /\ heaOut.best = bestS
    /\ \E j \in 1..Len(newPopulation) :
         /\ newPopulation[j].coloring = heaOut.best
         /\ newPopulation[j].conflicts = heaOut.bestConflicts

\* C26 witness: a step whose child beat every individual of the input population
C26_Witness ==
  /\ pc = "HEA_done"
  /\ bestConflicts < MinConflicts(population)
  /\ heaOut.best = bestS /\ heaOut.best # population[1].coloring

\* an individual of the graph: total coloring in 1..k, stored count in sync
IndividualOk(ind) ==
  /\ DOMAIN ind.coloring = NodeIds(graph)
  /\ InRange(ind.coloring, params.k)
  /\ ind.conflicts = countConflicts(ind.coloring, graph.adjacency)

\* C27: with k >= 1 on a non-empty graph, in every population built by initPopulation (or
\* handed in by a caller with the same properties) and carried through any number of
\* runHEAStep calls, every individual's coloring is total over the vertices with all values
\* in 1..k and its stored conflict count is countConflicts of its coloring.
C27_PopulationWellFormed ==
  (params.k >= 1 /\ N(graph) >= 1) =>
    /\ \A j \in 1..Len(individuals) : IndividualOk(individuals[j])
    /\ \A j \in 1..Len(population) : IndividualOk(population[j])
    /\ pc = "HEA_done" => \A j \in 1..Len(newPopulation) : IndividualOk(newPopulation[j])

\* C27 witness: a population on a graph of at least 3 vertices after every generation step
\* of the budget, holding individuals with different conflict counts, one of them not 0
C27_Witness ==
  /\ pc = "idle" /\ heaIter = MaxIterHEA /\ N(graph) >= 3
  /\ \E j \in 1..Len(population) : population[j].conflicts > 0
  /\ \E j, m \in 1..Len(population) : population[j].conflicts # population[m].conflicts

\* C22: after a delta-tracked move at iteration i took vertex v off color c, no
\* delta-tracked move of iterations i+1 .. i+tabuTenure puts v back on c unless it brings
\* the running total strictly below the best-ever total.
C22_NoReturnWithinTenure ==
  [][(pc = "Tabu_loop" /\ iter' = iter + 1 /\ lastMove'.kind = "delta") =>
       LET v == lastMove'.node
           back == lastMove'.newColor
       IN /\ currentS' = [currentS EXCEPT ![v] = back]
          /\ (leftAt[v][back] >= 1 /\ iter <= leftAt[v][back] + params.tabuTenure) =>
               currentConflicts + lastMove'.delta < bestConflicts]_vars

\* C22 witness: a vertex left a color by a delta-tracked move two iterations ago; in the
\* iteration after that move it was conflicted, its way back was refused and, no other move
\* being eligible, it took the forced random move
C22_Witness ==
  /\ pc = "Tabu_loop" /\ iter >= 3
  /\ lastMove.kind = "forced"
  /\ \E back \in 1..params.k :
       /\ back # lastMove.oldColor
       /\ leftAt[lastMove.node][back] = iter - 2

\* the candidate moves of an iteration as the specification describes them: a vertex with a
\* neighbour of its own color, a color of 1..k other than its own, and the change of the
\* vertex's local conflicts
MoveDelta(u, color) ==
  Cardinality({j \in 1..Len(graph.adjacency[u]) : currentS[graph.adjacency[u][j]] = color})
    - Cardinality({j \in 1..Len(graph.adjacency[u]) : currentS[graph.adjacency[u][j]] = currentS[u]})

Moves ==
  {mv \in NodeIds(graph) \X (1..params.k) :
     /\ mv[2] # currentS[mv[1]]
     /\ \E w \in Range(graph.adjacency[mv[1]]) : currentS[w] = currentS[mv[1]]}

\* forbidden while the current iteration is less than the stored index
ForbiddenNow(mv) == iter < tabuMatrix[mv[1]][mv[2]]

EligibleMoves ==
  {mv \in Moves : ~ForbiddenNow(mv) \/ currentConflicts + MoveDelta(mv[1], mv[2]) < bestConflicts}

LeastEligibleMoves ==
  {mv \in EligibleMoves :
     \A other \in EligibleMoves : MoveDelta(mv[1], mv[2]) <= MoveDelta(other[1], other[2])}

\* C21 (as claimed): in every runTabuCol iteration with an eligible candidate (not
\* forbidden, or bringing the running total strictly below the best-ever total), the
\* applied move recolors exactly one vertex, a conflicted one, by an eligible candidate of
\* the smallest delta among the eligible ones; and every eligible candidate of the smallest
\* delta can be the one selected.
C21_LeastEligibleMoveApplied ==
  /\ [][(TabuRunning /\ SeedAtLeastOne /\ params.k >= 1 /\ EligibleMoves # {}
           /\ iter' = iter + 1) =>
          \E mv \in LeastEligibleMoves :
            /\ currentS' = [currentS EXCEPT ![mv[1]] = mv[2]]
            /\ lastMove'.kind = "delta"]_vars
  /\ [](( TabuRunning /\ SeedAtLeastOne /\ params.k >= 1) =>
          {<<b.node, b.newColor>> : b \in {m \in bestMoves : m.node # NoNode}}
            = LeastEligibleMoves)

\* C30: while an HEA run is active (running flag set, interval timer installed) no call
\* of runAlgorithm starts a DSATUR, TabuCol or HEA run and the graph is not regenerated,
\* whatever the user does between the ticks; at most one interval timer is installed at
\* any time; and from startHEA on, through initPopulation and every generation step, the
\* run works on one graph and one set of parameters.
C30_SingleActiveRun ==
  /\ [](timers <= 1 /\ (timer => isRunning /\ timers = 1))
  /\ [][/\ (isRunning /\ timer /\ entry = "none") => entry' \in {"none", "tick"}
        /\ (isRunning /\ (timer \/ entry = "startHEA")) => (graph' = graph /\ params' = params)
        /\ entry' = "tick" => (isRunning /\ timer /\ holder = "app")]_vars

\* C30 witness: during a run the user changed k in the form; the next tick ran a generation
\* with the parameters of the run
C30_Witness ==
  /\ pc = "HEA_done" /\ entry = "tick"
  /\ isRunning /\ timer /\ timers = 1
  /\ formParams.k # params.k
  /\ invoked = MaxIterHEA

\* the name is the only reference to its object
Unshared(x) == GroupOf(alias, x) = {x}

\* the positions of each call between its first and its last step
TabuPositions == {"Tabu_begin", "Tabu_loop", "Tabu_done"}
GpxPositions == {"GPX_begin", "GPX_slot", "GPX_done"}
HeaPositions == {"HEA_begin", "HEA_done"} \cup GpxPositions \cup TabuPositions

\* C28: no operation writes into an object that is referenced elsewhere. The objects
\* written in place are the working coloring of runTabuCol, the child of gpxCrossover,
\* the coloring runDSATUR builds and the array runHEAStep returns: each is referenced by
\* its own variable only while it is written, the coloring runTabuCol returns and the
\* child gpxCrossover returns are no object of the seed, of a parent or of the
\* population, and the returned array is not the input array. The seed keeps its value
\* through runTabuCol, both parents through gpxCrossover, and the input population with
\* the colorings it stores through runHEAStep.
C28_NoSharedMutation ==
  /\ [](/\ pc = "DSATUR_loop" => Unshared(Ref("coloring"))
        /\ pc = "Tabu_loop" => Unshared(Ref("currentS"))
        /\ pc \in {"Tabu_loop", "Tabu_done"} =>
             GroupOf(alias, Ref("bestS")) \cap
               ({Ref("initialColoring"), Ref("p1"), Ref("p2")}
                  \cup {Member("population", j) : j \in 1..Len(population)}) = {}
        /\ pc \in {"GPX_slot", "GPX_done"} => Unshared(Ref("child"))
        /\ pc = "HEA_done" =>
             /\ Unshared(Ref("newPopulation"))
             /\ \A j \in 1..Len(newPopulation) :
                  Member("newPopulation", j) \in GroupOf(alias, Member("population", j))
                    \/ (heaOut.replaced /\ j = heaOut.worstIdx
                          /\ GroupOf(alias, Member("newPopulation", j)) =
                               {Member("newPopulation", j), Ref("bestS")}))
  /\ [][/\ (pc \in TabuPositions /\ pc' \in TabuPositions) => initialColoring' = initialColoring
        /\ (pc \in GpxPositions /\ pc' \in GpxPositions) => (p1' = p1 /\ p2' = p2)
        /\ (pc \in HeaPositions /\ pc' \in HeaPositions /\ entry \in {"runHEAStep", "tick"}) =>
             population' = population]_vars

\* a generation replaced the worst individual: the returned array shares its other
\* individuals with the input array
C28_Witness ==
  /\ pc = "HEA_done" /\ heaOut.replaced
  /\ newPopulation # population
  /\ \E j \in 1..Len(population) :
       Member("newPopulation", j) \in GroupOf(alias, Member("population", j))

\* the lowest index of an individual with the maximum conflict count
FirstWorstIndex(pop) ==
  CHOOSE j \in 1..Len(pop) :
    /\ pop[j].conflicts = MaxConflicts(pop)
    /\ \A h \in 1..(j - 1) : pop[h].conflicts < MaxConflicts(pop)

\* C31: a generation step changes at most one slot of the population. When the child is
\* accepted, the slot of the lowest-index individual with the maximum conflict count holds
\* the child and every other slot holds the individual it held; when it is not, every slot
\* does. The maximum conflict count of the returned population is at most that of the
\* input population.
C31_OneSlotReplaced ==
  pc = "HEA_done" =>
    /\ Len(newPopulation) = Len(population)
    /\ \A j \in 1..Len(population) :
         IF heaOut.replaced /\ j = FirstWorstIndex(population)
           THEN newPopulation[j] = [coloring |-> bestS, conflicts |-> bestConflicts]
           ELSE newPopulation[j] = population[j]
    /\ MaxConflicts(newPopulation) <= MaxConflicts(population)

\* an accepted child took the first of two slots that tie for the maximum
C31_Witness ==
  /\ pc = "HEA_done" /\ heaOut.replaced
  /\ Len(population) >= 2
  /\ population[1].conflicts = MaxConflicts(population)
  /\ population[2].conflicts = MaxConflicts(population)
  /\ newPopulation[1] # population[1]
  /\ newPopulation[2] = population[2]

\* the largest degree of the graph, 0 when it has no vertex
MaxDegreeOf(g) ==
  IF N(g) = 0 THEN 0
  ELSE CHOOSE d \in {DegreeOf(g, x) : x \in NodeIds(g)} :
         \A x \in NodeIds(g) : DegreeOf(g, x) <= d

\* the colors held by the colored neighbours of x
NeighbourColors(g, col, x) == {col[w] : w \in Range(g.adjacency[x])} \ {0}

\* C32: runDSATUR gives a vertex a color that one of its colored neighbours holds only
\* when every color of 1..k is held by a colored neighbour of it at that moment (the seed
\* vertex has no colored neighbour); and when k is greater than the maximum degree of the
\* graph, the returned coloring has no edge with both ends of one color.
C32_ConflictOnlyWhenSaturated ==
  /\ []((pc = "DSATUR_done" /\ params.k > MaxDegreeOf(graph)) =>
          \A x \in NodeIds(graph) : coloring[x] \notin NeighbourColors(graph, coloring, x))
  /\ [][/\ (pc = "DSATUR_begin" /\ pc' = "DSATUR_loop") =>
             \A x \in NodeIds(graph) :
               coloring'[x] # 0 => NeighbourColors(graph, coloring', x) = {}
        /\ (pc = "DSATUR_loop" /\ pc' = "DSATUR_loop") =>
             \A x \in NodeIds(graph) :
               (coloring'[x] # coloring[x]
                  /\ coloring'[x] \in NeighbourColors(graph, coloring, x)) =>
                 \A col \in 1..params.k : col \in NeighbourColors(graph, coloring, x)]_vars

\* runDSATUR returned on a graph of maximum degree 2 or more with k above it, and three
\* colors were needed
C32_Witness ==
  /\ pc = "DSATUR_done"
  /\ MaxDegreeOf(graph) >= 2 /\ params.k > MaxDegreeOf(graph)
  /\ Cardinality({coloring[x] : x \in NodeIds(graph)}) >= 3

\* the parent slot cc takes its class from: parent 1 for the odd slots, parent 2 for the even
SlotParent(cc) == IF cc % 2 = 1 THEN p1.coloring ELSE p2.coloring

\* the vertices that were given color cc by slot cc (the vertices still unassigned before
\* the fill are the ones the fill colors)
SlotClass(cc) == {x \in NodeIds(graph) : x \notin unassigned /\ child[x] = cc}

\* C33: in gpxCrossover the vertices given color c by slot c all hold one and the same
\* color in the parent slot c draws from, so two vertices with the same slot-assigned
\* color shared a color in that parent; and when neither parent has a conflict, every
\* edge of the returned child with both ends of one color has an end colored by the
\* random fill.
C33_SlotClassesFromOneParentClass ==
  /\ pc \in {"GPX_slot", "GPX_done"} =>
       \A cc \in 1..params.k :
         \A x \in SlotClass(cc), y \in SlotClass(cc) : SlotParent(cc)[x] = SlotParent(cc)[y]
  /\ (/\ pc = "GPX_done"
      /\ countConflicts(p1.coloring, graph.adjacency) = 0
      /\ countConflicts(p2.coloring, graph.adjacency) = 0) =>
       \A x \in NodeIds(graph) : \A y \in Range(graph.adjacency[x]) :
         child[x] = child[y] => (x \in unassigned \/ y \in unassigned)

\* two conflict-free parents, a slot that moved two vertices at once, and a child with a
\* conflict on an edge that the random fill colored
C33_Witness ==
  /\ pc = "GPX_done"
  /\ countConflicts(p1.coloring, graph.adjacency) = 0
  /\ countConflicts(p2.coloring, graph.adjacency) = 0
  /\ \E cc \in 1..params.k : Cardinality(SlotClass(cc)) >= 2
  /\ unassigned # {}
  /\ countConflicts(child, graph.adjacency) > 0

\* C34: gpxCrossover of a coloring (all values in 1..k) with itself leaves no vertex for
\* the random fill and returns a coloring with the same color classes as the parent up to
\* a renaming of the colors: two vertices share a color in the child exactly when they
\* share one in the parent, and the child has the parent's conflict count.
C34_SelfCrossoverKeepsPartition ==
  (/\ pc = "GPX_done" /\ p1.coloring = p2.coloring
   /\ \A x \in NodeIds(graph) : p1.coloring[x] \in 1..params.k) =>
    /\ unassigned = {}
    /\ \A x \in NodeIds(graph), y \in NodeIds(graph) :
         (child[x] = child[y]) <=> (p1.coloring[x] = p1.coloring[y])
    /\ countConflicts(child, graph.adjacency) = countConflicts(p1.coloring, graph.adjacency)

\* a parent with two classes crossed with itself: the child has the classes under other
\* colors
C34_Witness ==
  /\ pc = "GPX_done" /\ p1.coloring = p2.coloring
  /\ N(graph) >= 3
  /\ Cardinality({p1.coloring[x] : x \in NodeIds(graph)}) >= 2
  /\ child # p1.coloring
  /\ countConflicts(child, graph.adjacency) > 0

====
